---- MODULE Spec2Model ----
(***************************************************************************)
(* The task pipeline of SprintCOO: the HTTP handlers of server/routes.ts   *)
(* that create, import, triage and execute tasks, over the store of        *)
(* DatabaseStorage.  Every handler is cut at its awaits on the store: one  *)
(* action is one resumption of one request, so requests interleave exactly *)
(* where the Node event loop lets them.  A call to the Classifier or the   *)
(* Executor touches no shared state; its outcome is drawn in the action    *)
(* that performs the store operation following it.                         *)
(***************************************************************************)
EXTENDS Integers, Sequences, FiniteSets, TLC

\* ---------------------------------------------------------------- bounds
MaxCalls == 3        \* requests received in one behaviour (each entry of
                     \* an imported batch counts as one)
MaxInFlight == 2     \* requests being handled at the same time
MaxFaults == 1       \* store operations that throw in one behaviour

\* ------------------------------------------------------------ data model
Null == "null"       \* NULL in a text column, null or undefined in a local
NoId == 0            \* NULL in an integer reference column
NoTime == 0          \* NULL in a timestamp column

Users == {"alice", "bob"}

TriageCategories == {"auto_execute", "delegate_agent", "human_required"}
Categories == {"pending"} \cup TriageCategories

VARIABLES
    tasks, projects, files, socialPosts, activityLogs, notifications,  \* the tables
    reqs,     \* the requests being handled, by arrival number
    calls,    \* requests received so far (the budget MaxCalls bounds)
    last,     \* the request answered last, with its response
    now,      \* the clock read by new Date()
    faults    \* store operations that have thrown so far

vars == <<tasks, projects, files, socialPosts, activityLogs, notifications,
          reqs, calls, last, now, faults>>

Get(r, f, d) == IF f \in DOMAIN r THEN r[f] ELSE d

\* ------------------------------------------------------- DatabaseStorage
\* Rows are kept in insertion order; a serial id is the row's position.
\* SELECT ... WHERE id = <id>: the rows found; the caller takes the first.
getTaskOrAnyRow(id) == tasks
getTask(id) == SelectSeq(tasks, LAMBDA t : t.id = id)

createTask(ts, task) ==
    Append(ts, [id |-> Len(ts) + 1,
                userId |-> task.userId,
                projectId |-> Get(task, "projectId", NoId),
                title |-> task.title,
                category |-> Get(task, "category", "pending"),
                status |-> Get(task, "status", "pending"),
                priority |-> Get(task, "priority", "medium"),
                sourceFile |-> Get(task, "sourceFile", Null),
                result |-> Get(task, "result", Null),
                errorMessage |-> Get(task, "errorMessage", Null),
                metadata |-> Get(task, "metadata", Null),
                completedAt |-> Get(task, "completedAt", NoTime)])

\* UPDATE ... SET <updates> WHERE id = <id>: no row, no change, no error.
updateTask(ts, id, updates) ==
    IF id \in DOMAIN ts
    THEN [ts EXCEPT ![id] = [f \in DOMAIN ts[id] |->
              IF f \in DOMAIN updates THEN updates[f] ELSE ts[id][f]]]
    ELSE ts

\* SELECT ... WHERE <conditions> ORDER BY created_at DESC.  Each filter that
\* is given replaces the query built so far.
getTasksOfAnyone(userId, filters) ==
    LET Rev(s) == [i \in 1..Len(s) |-> s[Len(s) + 1 - i]]
        Where(t) ==
            IF "status" \in DOMAIN filters THEN t.status = filters.status
            ELSE IF "category" \in DOMAIN filters THEN t.category = filters.category
            ELSE IF "projectId" \in DOMAIN filters THEN t.projectId = filters.projectId
            ELSE TRUE
    IN  SelectSeq(Rev(tasks), Where)
getTasks(userId, filters) ==
    LET Rev(s) == [i \in 1..Len(s) |-> s[Len(s) + 1 - i]]
        Where(t) ==
            IF "status" \in DOMAIN filters
            THEN t.userId = userId /\ t.status = filters.status
            ELSE IF "category" \in DOMAIN filters
            THEN t.userId = userId /\ t.category = filters.category
            ELSE IF "projectId" \in DOMAIN filters
            THEN t.userId = userId /\ t.projectId = filters.projectId
            ELSE t.userId = userId
    IN  SelectSeq(Rev(tasks), Where)

getProjectsOfAnyone(userId) ==
    LET Rev(s) == [i \in 1..Len(s) |-> s[Len(s) + 1 - i]]
    IN  Rev(projects)
getProjects(userId) ==
    \* newest first (orderBy desc createdAt)
    LET Rev(s) == [i \in 1..Len(s) |-> s[Len(s) + 1 - i]]
    IN  SelectSeq(Rev(projects), LAMBDA p : p.userId = userId)

createProject(ps, project) ==
    Append(ps, [id |-> Len(ps) + 1, userId |-> project.userId, name |-> project.name])

createFile(fs, file) ==
    Append(fs, [id |-> Len(fs) + 1, userId |-> file.userId, name |-> file.name,
                source |-> file.source, type |-> file.type])

\* SELECT ... FROM files WHERE id = <id>: the rows found.
getFile(id) == SelectSeq(files, LAMBDA f : f.id = id)

createSocialPostReplacing(ps, post) ==
    LET kept == SelectSeq(ps, LAMBDA p : ~(p.masterDocumentId = post.masterDocumentId
                                             /\ p.platform = post.platform))
    IN  Append(kept, [id |-> Len(ps) + 1, userId |-> post.userId,
                      masterDocumentId |-> post.masterDocumentId,
                      platform |-> post.platform, content |-> post.content,
                      status |-> Get(post, "status", "draft")])
createSocialPost(ps, post) ==
    Append(ps, [id |-> Len(ps) + 1, userId |-> post.userId,
                masterDocumentId |-> post.masterDocumentId,
                platform |-> post.platform, content |-> post.content,
                status |-> Get(post, "status", "draft")])

createActivityLog(ls, log) == Append(ls, log)

createNotification(ns, n) == Append(ns, n)

\* -------------------------------------------------------------- requests
NoResp == [status |-> 0]
\* A rejection that escapes the handler: the client gets no JSON envelope.
Rejected == [status |-> 500, unhandled |-> TRUE]
Json(status, body) == [status |-> status, body |-> body]

\* Thrown values.  A store failure throws an Error; the Executor and the
\* Classifier clients throw Errors, or, as any JavaScript code may, a value
\* that is no Error.
NoError == [isError |-> FALSE, message |-> Null]
DbError == [isError |-> TRUE, message |-> "connection terminated"]
ExecutorThrows == {[isError |-> TRUE, message |-> "quota exceeded"],
                   [isError |-> FALSE, message |-> "timeout"]}
\* error instanceof Error ? error.message : "Unknown error"
ErrMessage(error) == IF error.isError THEN error.message ELSE "Unknown error"

NoTask == [id |-> NoId]
NoReply == [throws |-> FALSE, wellFormed |-> FALSE, none |-> TRUE]
\* A handler's locals: req.params.id, the session user, and what it has
\* computed so far (task: the row the import loop has just created; reply:
\* what the Classifier handed back; text: response.text of the Executor).
NewReq(kind, userId, id) ==
    [kind |-> kind, pc |-> "start", userId |-> userId, id |-> id,
     task |-> NoTask, reply |-> NoReply, text |-> Null,
     result |-> Null, error |-> NoError, resp |-> NoResp,
     fileName |-> Null, savedFile |-> NoId,
     entries |-> <<>>, createdTasks |-> <<>>,
     platforms |-> <<>>, posts |-> <<>>]

CanStart == calls < MaxCalls /\ Cardinality(DOMAIN reqs) < MaxInFlight
At(c, kind, pc) == c \in DOMAIN reqs /\ reqs[c].kind = kind /\ reqs[c].pc = pc
Drop(c) == [d \in DOMAIN reqs \ {c} |-> reqs[d]]
\* What is kept of an answered request: which it was, what it caught, and
\* the response it sent.
Answered(r, c, resp) ==
    [c |-> c, kind |-> r.kind, id |-> r.id, reply |-> r.reply, text |-> r.text,
     error |-> r.error, resp |-> resp]

\* The request arrives and is answered in the same resumption.
Answer(r, resp) ==
    /\ calls' = calls + 1
    /\ last' = Answered(r, calls + 1, resp)
    /\ UNCHANGED reqs
\* The request arrives and suspends at pc.
Admit(r, pc) ==
    /\ calls' = calls + 1
    /\ reqs' = (calls + 1 :> [r EXCEPT !.pc = pc]) @@ reqs
    /\ UNCHANGED last
\* The suspended request c resumes and is answered.
Finish(c, resp) ==
    /\ reqs' = Drop(c)
    /\ last' = Answered(reqs[c], c, resp)
    /\ UNCHANGED calls
\* The suspended request c resumes and suspends again.
Continue(c, r) ==
    /\ reqs' = [reqs EXCEPT ![c] = r]
    /\ UNCHANGED <<calls, last>>

Init ==
    /\ tasks = <<>>
    /\ projects = <<>>
    /\ files = <<>>
    /\ socialPosts = <<>>
    /\ activityLogs = <<>>
    /\ notifications = <<>>
    /\ reqs = <<>>
    /\ calls = 0
    /\ last = Answered(NewReq("none", Null, NoId), 0, NoResp)
    /\ now = 1
    /\ faults = 0

\* Some store operation of this resumption throws.
Fault == faults < MaxFaults /\ faults' = faults + 1

\* ------------------------------------------------------- POST /api/tasks
\* Request bodies that pass insertTaskSchema (every column but id and the
\* two bookkeeping timestamps may be given), and one that does not.
TaskBodies == {[title |-> "t"],
               [title |-> "t", category |-> "human_required"],
               [priority |-> "high"]}

\* tasks.project_id references projects.id: NULL, or the id of a row.
ProjectExists(projectId) ==
    projectId = NoId \/ \E i \in DOMAIN projects : projects[i].id = projectId

\* Bodies that give a status.
StatusTaskBodies == TaskBodies \cup {[title |-> "t", status |-> "completed"]}

\* Bodies that name a project.
ProjectTaskBodies == TaskBodies \cup {[title |-> "t", projectId |-> 1]}

CreateTask(u, body) ==
    /\ CanStart
    /\ LET r == NewReq("create", u, NoId)
           input == [f \in DOMAIN body \cup {"userId"} |->
                        IF f = "userId" THEN u ELSE body[f]]
           Failed == Json(500, [message |-> "Failed to create task"])
           Insertable == "title" \in DOMAIN body /\ ProjectExists(Get(body, "projectId", NoId))
       IN  \/ /\ "title" \notin DOMAIN body          \* ZodError
              /\ Answer(r, Json(400, [message |-> "Required", field |-> "title"]))
              /\ UNCHANGED <<tasks, activityLogs, faults>>
           \/ /\ "title" \in DOMAIN body
              /\ ~Insertable                         \* createTask throws: no such project
              /\ Answer(r, Failed)
              /\ UNCHANGED <<tasks, activityLogs, faults>>
           \/ /\ Insertable
              /\ Fault                               \* createTask throws
              /\ Answer(r, Failed)
              /\ UNCHANGED <<tasks, activityLogs>>
           \/ /\ Insertable
              /\ Fault                               \* createActivityLog throws
              /\ tasks' = createTask(tasks, input)
              /\ Answer(r, Failed)
              /\ UNCHANGED activityLogs
           \/ /\ Insertable
              /\ tasks' = createTask(tasks, input)
              /\ activityLogs' = createActivityLog(activityLogs,
                     [userId |-> u, action |-> "task_created",
                      entityType |-> "task", entityId |-> Len(tasks) + 1])
              /\ Answer(r, Json(201, [id |-> Len(tasks) + 1]))
              /\ UNCHANGED faults
    /\ UNCHANGED <<projects, files, notifications, now, socialPosts>>

\* --------------------------------------------------- GET /api/tasks/:id
\* What is kept of an answered read: also who asked.
AnsweredTo(r, c, resp) ==
    [c |-> c, kind |-> r.kind, userId |-> r.userId, id |-> r.id, reply |-> r.reply,
     text |-> r.text, error |-> r.error, resp |-> resp]
\* A read arrives and is answered in the same resumption.
AnswerRead(r, resp) ==
    /\ calls' = calls + 1
    /\ last' = AnsweredTo(r, calls + 1, resp)
    /\ UNCHANGED reqs

GetTask(u, id) ==
    /\ CanStart
    /\ LET r == NewReq("get", u, id)
       IN  \/ /\ Fault                               \* getTask throws
              /\ AnswerRead(r, Json(500, [message |-> "Failed to fetch task"]))
           \/ /\ getTask(id) = <<>>
              /\ AnswerRead(r, Json(404, [message |-> "Task not found"]))
              /\ UNCHANGED faults
           \/ /\ getTask(id) # <<>>
              /\ AnswerRead(r, Json(200, Head(getTask(id))))
              /\ UNCHANGED faults
    /\ UNCHANGED <<tasks, projects, files, socialPosts, activityLogs, notifications, now>>

\* ---------------------------------------------------- PUT /api/tasks/:id
\* Request bodies that pass insertTaskSchema.partial().
UpdateBodies == {[projectId |-> 1], [priority |-> "high"]}

UpdateTask(u, id, input) ==
    /\ CanStart
    /\ LET r == NewReq("update", u, id)
           Failed == Json(500, [message |-> "Failed to update task"])
           found == getTask(id) # <<>>
           Updatable == found /\ ProjectExists(Get(input, "projectId", NoId))
       IN  \/ /\ Fault                               \* updateTask throws
              /\ Answer(r, Failed)
              /\ UNCHANGED tasks
           \/ /\ found
              /\ ~Updatable                          \* updateTask throws: no such project
              /\ Answer(r, Failed)
              /\ UNCHANGED <<tasks, faults>>
           \/ /\ ~found                              \* no row updated
              /\ Answer(r, Json(404, [message |-> "Task not found"]))
              /\ UNCHANGED <<tasks, faults>>
           \/ /\ Updatable
              /\ tasks' = updateTask(tasks, id, input)
              /\ Answer(r, Json(200, updateTask(tasks, id, input)[id]))
              /\ UNCHANGED faults
    /\ UNCHANGED <<projects, files, socialPosts, activityLogs, notifications, now>>

\* -------------------------------------------------------- GET /api/tasks
\* req.query: each of projectId, category and status given or not.
FilterValues == [projectId |-> 1, category |-> "human_required", status |-> "pending"]
TaskFilters ==
    {[k \in ks |-> FilterValues[k]] : ks \in SUBSET {"projectId", "category", "status"}}

ListTasks(u, filters) ==
    /\ CanStart
    /\ LET r == NewReq("list", u, NoId)
       IN  \/ /\ Fault                               \* getTasks throws
              /\ AnswerRead(r, Json(500, [message |-> "Failed to fetch tasks"]))
           \/ /\ AnswerRead(r, Json(200, getTasks(u, filters)))
              /\ UNCHANGED faults
    /\ UNCHANGED <<tasks, projects, files, socialPosts, activityLogs, notifications, now>>

\* -------------------------------------------------- GET /api/dashboard/*
\* .limit(10)
UrgentLimit == 10

\* where userId, category human_required, status pending; newest first;
\* at most UrgentLimit rows.
getUrgentTasksUnlimited(ts, userId) ==
    LET Rev(s) == [i \in 1..Len(s) |-> s[Len(s) + 1 - i]]
    IN  SelectSeq(Rev(ts), LAMBDA t : /\ t.userId = userId
                                      /\ t.category = "human_required"
                                      /\ t.status = "pending")
getUrgentTasks(ts, userId) ==
    LET Rev(s) == [i \in 1..Len(s) |-> s[Len(s) + 1 - i]]
        rows == SelectSeq(Rev(ts), LAMBDA t : /\ t.userId = userId
                                              /\ t.category = "human_required"
                                              /\ t.status = "pending")
    IN  SubSeq(rows, 1, IF Len(rows) < UrgentLimit THEN Len(rows) ELSE UrgentLimit)

\* The count(*) queries over tasks and projects.
getDashboardStats(ts, ps, userId) ==
    [totalTasks |-> Len(SelectSeq(ts, LAMBDA t : t.userId = userId)),
     pendingAttention |-> Len(SelectSeq(ts, LAMBDA t : /\ t.userId = userId
                                                       /\ t.category = "human_required"
                                                       /\ t.status = "pending")),
     errorCount |-> Len(SelectSeq(ts, LAMBDA t : t.userId = userId /\ t.status = "failed")),
     projectCount |-> Len(SelectSeq(ps, LAMBDA q : q.userId = userId))]

DashboardStats(u) ==
    /\ CanStart
    /\ LET r == NewReq("stats", u, NoId)
       IN  \/ /\ Fault                               \* a count query throws
              /\ AnswerRead(r, Json(500, [message |-> "Failed to fetch dashboard stats"]))
           \/ /\ AnswerRead(r, Json(200, getDashboardStats(tasks, projects, u)))
              /\ UNCHANGED faults
    /\ UNCHANGED <<tasks, projects, files, socialPosts, activityLogs, notifications, now>>

UrgentTasks(u) ==
    /\ CanStart
    /\ LET r == NewReq("urgent", u, NoId)
       IN  \/ /\ Fault                               \* getUrgentTasks throws
              /\ AnswerRead(r, Json(500, [message |-> "Failed to fetch urgent tasks"]))
           \/ /\ AnswerRead(r, Json(200, getUrgentTasks(tasks, u)))
              /\ UNCHANGED faults
    /\ UNCHANGED <<tasks, projects, files, socialPosts, activityLogs, notifications, now>>

\* ------------------------------------------------------------ Classifier
\* What anthropic.messages.create hands back for a triage prompt: the call
\* throws, or it returns a text, which JSON.parse accepts or not.  An
\* accepted text is whatever object the model chose to write.
ClassifierReplies ==
    {[throws |-> TRUE], [throws |-> FALSE, wellFormed |-> FALSE]}
    \cup {[throws |-> FALSE, wellFormed |-> TRUE,
           value |-> [category |-> cat, confidence |-> 9, reasoning |-> "why"]] :
             cat \in {"auto_execute", "human_required", "urgent"}}
    \cup {[throws |-> FALSE, wellFormed |-> TRUE,
           value |-> [confidence |-> 9, reasoning |-> "why"]]}

\* The await on the Classifier followed by JSON.parse(responseText).
ParseThrows(reply) == IF reply.throws THEN TRUE ELSE ~reply.wellFormed
JSONparse(reply) == reply.value

\* { category: result.category }; the query builder drops a key whose
\* value is undefined.
CategoryUpdatesKeepingReasoning(result) ==
    IF "category" \in DOMAIN result
    THEN [category |-> result.category, metadata |-> result.reasoning]
    ELSE [f \in {} |-> Null]
CategoryUpdates(result) ==
    IF "category" \in DOMAIN result THEN [category |-> result.category]
    ELSE [f \in {} |-> Null]

\* ------------------------------------------- POST /api/tasks/:id/triage
TaskIds == 1..(Len(tasks) + 1)

TriageGetTask(u, id) ==
    /\ CanStart
    /\ LET r == NewReq("triage", u, id)
       IN  \/ /\ Fault                               \* getTask throws
              /\ Answer(r, Json(500, [message |-> "Failed to triage task"]))
           \/ /\ getTask(id) = <<>>
              /\ Answer(r, Json(404, [message |-> "Task not found"]))
              /\ UNCHANGED faults
           \/ /\ getTask(id) # <<>>
              /\ Admit(r, "classify")
              /\ UNCHANGED faults
    /\ UNCHANGED <<tasks, projects, files, activityLogs, notifications, now, socialPosts>>

TriageClassify(c, reply) ==
    /\ At(c, "triage", "classify")
    /\ LET Failed == Json(500, [message |-> "Failed to triage task"])
           Reply(resp) ==
               /\ reqs' = Drop(c)
               /\ last' = Answered([reqs[c] EXCEPT !.reply = reply], c, resp)
               /\ UNCHANGED calls
       IN  \/ /\ ParseThrows(reply)
              /\ Reply(Failed)
              /\ UNCHANGED <<tasks, faults>>
           \/ /\ ~ParseThrows(reply)
              /\ Fault                               \* updateTask throws
              /\ Reply(Failed)
              /\ UNCHANGED tasks
           \/ /\ ~ParseThrows(reply)
              /\ tasks' = updateTask(tasks, reqs[c].id, CategoryUpdates(JSONparse(reply)))
              /\ Reply(Json(200, JSONparse(reply)))
              /\ UNCHANGED faults
    /\ UNCHANGED <<projects, files, activityLogs, notifications, now, socialPosts>>

\* ------------------------------------------ POST /api/tasks/:id/execute
\* response.text of gemini.models.generateContent, empty or not.
ExecutorTexts == {"", "Report generated."}
\* response.text || "Task executed successfully"
ResultText(text) == IF text = "" THEN "Task executed successfully" ELSE text

InProgressUpdatesSkipped == [f \in {} |-> Null]
InProgressUpdates == [status |-> "in_progress"]
CompletedUpdatesWithoutDate(result, date) ==
    [status |-> "completed", result |-> result]
CompletedUpdatesKeepingStatus(result, date) ==
    [result |-> result, completedAt |-> date]
CompletedUpdates(result, date) ==
    [status |-> "completed", result |-> result, completedAt |-> date]
FailedUpdatesWithoutMessage(error) ==
    [status |-> "failed"]
FailedUpdatesResetting(error) ==
    [status |-> "failed", errorMessage |-> ErrMessage(error),
     result |-> Null, completedAt |-> NoTime]
FailedUpdatesKeepingStatus(error) ==
    [errorMessage |-> ErrMessage(error)]
FailedUpdates(error) ==
    [status |-> "failed", errorMessage |-> ErrMessage(error)]

\* The catch block, entered by request r (arrival number c) with the
\* thrown value, after `used` store operations threw in this resumption.
\* Its own updateTask is awaited outside any try: when it throws, the
\* handler's promise rejects.
ExecuteCatch(r, c, error, used) ==
    LET caught == [r EXCEPT !.error = error]
        Reply(resp) ==
            /\ reqs' = Drop(c)
            /\ last' = Answered(caught, c, resp)
    IN  \/ /\ tasks' = updateTask(tasks, r.id, FailedUpdates(error))
           /\ faults' = faults + used
           /\ Reply(Json(200, [success |-> FALSE, error |-> ErrMessage(error)]))
        \/ /\ faults + used < MaxFaults              \* updateTask throws
           /\ faults' = faults + used + 1
           /\ UNCHANGED tasks
           /\ Reply(Rejected)

ExecuteGetTask(u, id) ==
    /\ CanStart
    /\ LET r == NewReq("execute", u, id)
       IN  \/ /\ faults < MaxFaults                  \* getTask throws
              /\ ExecuteCatch(r, calls + 1, DbError, 1)
              /\ calls' = calls + 1
           \/ /\ getTask(id) = <<>>
              /\ Answer(r, Json(404, [message |-> "Task not found"]))
              /\ UNCHANGED <<tasks, faults>>
           \/ /\ getTask(id) # <<>>
              /\ Admit(r, "markInProgress")
              /\ UNCHANGED <<tasks, faults>>
    /\ UNCHANGED <<projects, files, activityLogs, notifications, now, socialPosts>>

ExecuteMarkInProgress(c) ==
    /\ At(c, "execute", "markInProgress")
    /\ \/ /\ tasks' = updateTask(tasks, reqs[c].id, InProgressUpdates)
          /\ Continue(c, [reqs[c] EXCEPT !.pc = "generate"])
          /\ UNCHANGED faults
       \/ /\ faults < MaxFaults                      \* updateTask throws
          /\ ExecuteCatch(reqs[c], c, DbError, 1)
          /\ UNCHANGED calls
    /\ UNCHANGED <<projects, files, activityLogs, notifications, now, socialPosts>>

\* The Executor returns and the completed write is applied, or the
\* Executor throws and the catch block runs.
ExecuteGenerate(c) ==
    /\ At(c, "execute", "generate")
    /\ \/ /\ \E text \in ExecutorTexts :
                /\ tasks' = updateTask(tasks, reqs[c].id,
                                CompletedUpdates(ResultText(text), now))
                /\ Continue(c, [reqs[c] EXCEPT !.pc = "log", !.text = text,
                                                !.result = ResultText(text)])
          /\ now' = now + 1
          /\ UNCHANGED faults
       \/ /\ faults < MaxFaults                      \* updateTask throws
          /\ ExecuteCatch(reqs[c], c, DbError, 1)
          /\ UNCHANGED <<calls, now>>
       \/ /\ \E error \in ExecutorThrows : ExecuteCatch(reqs[c], c, error, 0)
          /\ UNCHANGED <<calls, now>>
    /\ UNCHANGED <<projects, files, activityLogs, notifications, socialPosts>>

TaskCompletedLog(userId, id) ==
    [userId |-> userId, action |-> "task_completed", entityType |-> "task", entityId |-> id]

ExecuteLog(c) ==
    /\ At(c, "execute", "log")
    /\ \/ /\ activityLogs' = createActivityLog(activityLogs,
                 TaskCompletedLog(reqs[c].userId, reqs[c].id))
          /\ Finish(c, Json(200, [success |-> TRUE, result |-> reqs[c].result]))
          /\ UNCHANGED <<tasks, faults>>
       \/ /\ faults < MaxFaults                      \* createActivityLog throws
          /\ ExecuteCatch(reqs[c], c, DbError, 1)
          /\ UNCHANGED <<calls, activityLogs>>
    /\ UNCHANGED <<projects, files, notifications, now, socialPosts>>

\* ---------------------------------------------------- POST /api/projects
\* Text is a sequence of characters, so that toLowerCase and includes act
\* on it as they do on a JavaScript string.
ProjectNames == {<<"A", "c", "m", "e">>, <<"B">>}

CreateProject(u, name) ==
    /\ CanStart
    /\ LET r == NewReq("project", u, NoId)
           Failed == Json(500, [message |-> "Failed to create project"])
       IN  \/ /\ Fault                               \* createProject throws
              /\ Answer(r, Failed)
              /\ UNCHANGED <<projects, activityLogs>>
           \/ /\ Fault                               \* createActivityLog throws
              /\ projects' = createProject(projects, [userId |-> u, name |-> name])
              /\ Answer(r, Failed)
              /\ UNCHANGED activityLogs
           \/ /\ projects' = createProject(projects, [userId |-> u, name |-> name])
              /\ activityLogs' = createActivityLog(activityLogs,
                     [userId |-> u, action |-> "project_created",
                      entityType |-> "project", entityId |-> Len(projects) + 1])
              /\ Answer(r, Json(201, [id |-> Len(projects) + 1]))
              /\ UNCHANGED faults
    /\ UNCHANGED <<tasks, files, notifications, now, socialPosts>>

\* ------------------------------------------- POST /api/drive/import-tasks
FolderNames == {"inbox", "archive"}
FileNames == {"tasks.txt", "notes.txt"}

\* What the File Source holds: one folder, named inbox, with one file.
Drive == [inbox |-> {"tasks.txt"}]
\* response.data.files?.[0]?.id || null
findFolder(folderName) ==
    IF folderName \in DOMAIN Drive THEN folderName ELSE Null
\* response.data.files?.[0] || null, as a sequence of at most one file.
findFileInFolderOrAny(folderId, fileName) ==
    <<[id |-> fileName, name |-> fileName]>>
findFileInFolder(folderId, fileName) ==
    IF fileName \in Drive[folderId] THEN <<[id |-> fileName, name |-> fileName]>> ELSE <<>>

\* One entry of parsed.tasks, as the Classifier wrote it.
ParsedEntries == {[title |-> "t"],
                  [title |-> "t", priority |-> "high", projectName |-> <<"a", "C">>]}

\* The same, and one whose priority is none of low, medium, high, urgent.
WrittenEntries == ParsedEntries \cup {[title |-> "t", priority |-> "asap"]}

\* The replies to the parse prompt with at most n of the given entries.
ParseRepliesOf(entries, n) ==
    {[throws |-> TRUE], [throws |-> FALSE, wellFormed |-> FALSE],
     [throws |-> FALSE, wellFormed |-> TRUE, value |-> [note |-> "no tasks"]]}
    \cup {[throws |-> FALSE, wellFormed |-> TRUE, value |-> [tasks |-> es]] :
            es \in UNION {[1..k -> entries] : k \in 0..n}}
ParseReplies(n) == ParseRepliesOf(ParsedEntries, n)

ToLowerCase(s) ==
    [i \in DOMAIN s |-> CASE s[i] = "A" -> "a" [] s[i] = "C" -> "c" [] OTHER -> s[i]]
Includes(s, sub) ==
    \E i \in 0..(Len(s) - Len(sub)) : SubSeq(s, i + 1, i + Len(sub)) = sub

\* projects.find(p => p.name.toLowerCase().includes(projectName.toLowerCase()))
MatchingProject(userId, projectName) ==
    SelectSeq(getProjects(userId),
              LAMBDA p : Includes(ToLowerCase(p.name), ToLowerCase(projectName)))

ImportFailed == Json(500, [message |-> "Failed to import tasks from Google Drive"])

\* findFolder, findFileInFolder and getFileContent ask the File Source
\* only; the first store operation is createFile.
ImportSaveFile(u, folderName, fileName) ==
    /\ CanStart
    /\ LET r == [NewReq("import", u, NoId) EXCEPT !.fileName = fileName]
           folderId == findFolder(folderName)
           file == IF folderId = Null THEN <<>> ELSE findFileInFolder(folderId, fileName)
       IN  \/ /\ Answer(r, ImportFailed)             \* the File Source throws
              /\ UNCHANGED <<files, faults>>
           \/ /\ folderId = Null
              /\ Answer(r, Json(404, [message |-> <<"Folder '", folderName, "' not found">>]))
              /\ UNCHANGED <<files, faults>>
           \/ /\ folderId # Null
              /\ file = <<>>
              /\ Answer(r, Json(404, [message |-> <<"File '", fileName, "' not found in folder">>]))
              /\ UNCHANGED <<files, faults>>
           \/ /\ file # <<>>
              /\ Fault                               \* createFile throws
              /\ Answer(r, ImportFailed)
              /\ UNCHANGED files
           \/ /\ file # <<>>
              /\ files' = createFile(files, [userId |-> u, name |-> fileName,
                                             source |-> "google_drive", type |-> "input"])
              /\ Admit([r EXCEPT !.savedFile = Len(files) + 1], "parse")
              /\ UNCHANGED faults
    /\ UNCHANGED <<tasks, projects, activityLogs, notifications, now, socialPosts>>

\* The parse prompt returns; JSON.parse; the loop over parsed.tasks starts.
\* Each entry takes one unit of the request budget.
ImportParse(c, reply) ==
    /\ At(c, "import", "parse")
    /\ \/ /\ ParseThrows(reply)
          /\ reqs' = Drop(c)
          /\ last' = Answered([reqs[c] EXCEPT !.reply = reply], c, ImportFailed)
          /\ UNCHANGED calls
       \/ /\ ~ParseThrows(reply)
          /\ "tasks" \notin DOMAIN JSONparse(reply)  \* parsed.tasks is not iterable
          /\ reqs' = Drop(c)
          /\ last' = Answered([reqs[c] EXCEPT !.reply = reply], c, ImportFailed)
          /\ UNCHANGED calls
       \/ /\ ~ParseThrows(reply)
          /\ "tasks" \in DOMAIN JSONparse(reply)
          /\ LET es == JSONparse(reply).tasks
             IN  /\ reqs' = [reqs EXCEPT ![c].pc = "loop", ![c].entries = es]
                 /\ calls' = calls + Len(es)
          /\ UNCHANGED last
    /\ UNCHANGED <<tasks, projects, files, activityLogs, notifications, now, faults, socialPosts>>

\* One iteration, up to the createTask.
ImportCreateTask(c) ==
    /\ At(c, "import", "loop")
    /\ reqs[c].entries # <<>>
    /\ LET taskData == Head(reqs[c].entries)
           matching == IF "projectName" \in DOMAIN taskData
                       THEN MatchingProject(reqs[c].userId, taskData.projectName)
                       ELSE <<>>
           projectId == IF matching # <<>> THEN Head(matching).id ELSE NoId
       IN  \/ /\ Fault                               \* getProjects or createTask throws
              /\ Finish(c, ImportFailed)
              /\ UNCHANGED tasks
           \/ /\ tasks' = createTask(tasks,
                     [userId |-> reqs[c].userId, projectId |-> projectId,
                      title |-> taskData.title,
                      priority |-> Get(taskData, "priority", "medium"),
                      category |-> "pending", status |-> "pending",
                      sourceFile |-> reqs[c].fileName])
              /\ Continue(c, [reqs[c] EXCEPT !.pc = "triage", !.reply = NoReply,
                     !.task = [id |-> Len(tasks) + 1, category |-> "pending"]])
              /\ UNCHANGED faults
    /\ UNCHANGED <<projects, files, activityLogs, notifications, now, socialPosts>>

\* createdTasks.push(task), and on to the next entry.
Pushed(r, task, reply) ==
    [r EXCEPT !.pc = "loop", !.entries = Tail(@), !.task = NoTask,
              !.reply = reply, !.createdTasks = Append(@, task)]
\* catch (triageError): logged, and the iteration goes on to the push.
TriageCaughtAbandoningTask(r, reply) ==
    [r EXCEPT !.pc = "loop", !.entries = Tail(@), !.task = NoTask, !.reply = reply]
TriageCaught(r, reply) == Pushed(r, r.task, reply)

\* The rest of the iteration: the inner try around the triage of the task
\* just created, then createdTasks.push(task).
ImportTriage(c, reply) ==
    /\ At(c, "import", "triage")
    /\ LET Push(task) == Continue(c, Pushed(reqs[c], task, reply))
       IN  \/ /\ ParseThrows(reply)                  \* caught and logged
              /\ Continue(c, TriageCaught(reqs[c], reply))
              /\ UNCHANGED <<tasks, faults>>
           \/ /\ ~ParseThrows(reply)
              /\ Fault                               \* updateTask throws: caught
              /\ Continue(c, TriageCaught(reqs[c], reply))
              /\ UNCHANGED tasks
           \/ /\ ~ParseThrows(reply)
              /\ tasks' = updateTask(tasks, reqs[c].task.id,
                                     CategoryUpdates(JSONparse(reply)))
              /\ Push([reqs[c].task EXCEPT
                          !.category = Get(JSONparse(reply), "category", Null)])
              /\ UNCHANGED faults
    /\ UNCHANGED <<projects, files, activityLogs, notifications, now, socialPosts>>

CountCategory(ts, category) ==
    Cardinality({i \in DOMAIN ts : ts[i].category = category})

\* After the loop: the activity log, the notification and the response.
\* The two inserts read nothing and go to tables no handler reads.
ImportNotify(c) ==
    /\ At(c, "import", "loop")
    /\ reqs[c].entries = <<>>
    /\ LET createdTasks == reqs[c].createdTasks
           log == [userId |-> reqs[c].userId, action |-> "file_processed",
                   entityType |-> "file", entityId |-> reqs[c].savedFile,
                   imported |-> Len(createdTasks)]
       IN  \/ /\ Fault                               \* createActivityLog throws
              /\ Finish(c, ImportFailed)
              /\ UNCHANGED <<activityLogs, notifications>>
           \/ /\ Fault                               \* createNotification throws
              /\ activityLogs' = createActivityLog(activityLogs, log)
              /\ Finish(c, ImportFailed)
              /\ UNCHANGED notifications
           \/ /\ activityLogs' = createActivityLog(activityLogs, log)
              /\ notifications' = createNotification(notifications,
                     [userId |-> reqs[c].userId, type |-> "info",
                      title |-> "Tasks Imported", imported |-> Len(createdTasks)])
              /\ Finish(c, Json(200,
                     [file |-> reqs[c].savedFile, tasks |-> createdTasks,
                      summary |-> [total |-> Len(createdTasks),
                          autoExecute |-> CountCategory(createdTasks, "auto_execute"),
                          delegated |-> CountCategory(createdTasks, "delegate_agent"),
                          humanRequired |-> CountCategory(createdTasks, "human_required")]]))
              /\ UNCHANGED faults
    /\ UNCHANGED <<tasks, projects, files, now, socialPosts>>

\* ---------------------------------- POST /api/files/:id/generate-posts
platforms == <<"x", "facebook", "linkedin", "instagram", "tiktok_script", "youtube_script">>

FileIds == 1..(Len(files) + 1)

\* response.text of the Executor for a post prompt.
PostTexts == {"Report generated."}
\* response.text || ""
PostContent(text) == IF text = "" THEN "" ELSE text

PostsFailed == Json(500, [message |-> "Failed to generate posts"])

\* A run is six Executor calls long: the runs are taken one after another.
CanStartPosts ==
    /\ CanStart
    /\ \A c \in DOMAIN reqs : reqs[c].kind # "posts"

PostsGetFile(u, id) ==
    /\ CanStartPosts
    /\ LET r == NewReq("posts", u, id)
       IN  \/ /\ Fault                               \* getFile throws
              /\ Answer(r, PostsFailed)
           \/ /\ getFile(id) = <<>>
              /\ Answer(r, Json(404, [message |-> "File not found"]))
              /\ UNCHANGED faults
           \/ /\ getFile(id) # <<>>
              /\ Admit([r EXCEPT !.platforms = platforms], "generate")
              /\ UNCHANGED faults
    /\ UNCHANGED <<tasks, projects, files, socialPosts, activityLogs, notifications, now>>

\* One iteration of the loop over the platforms: the Executor returns and
\* the post is saved, or either of the two throws and the catch block
\* answers.  After the last platform the posts are sent.
PostsGenerate(c) ==
    /\ At(c, "posts", "generate")
    /\ LET r == reqs[c]
           platform == Head(r.platforms)
       IN  \/ /\ \E text \in PostTexts :
                    LET created == createSocialPost(socialPosts,
                                       [userId |-> r.userId, masterDocumentId |-> r.id,
                                        platform |-> platform,
                                        content |-> PostContent(text),
                                        status |-> "draft"])
                        post == created[Len(created)]
                        posts == Append(r.posts, post)
                    IN  /\ socialPosts' = created
                        /\ IF Tail(r.platforms) = <<>>
                           THEN Finish(c, Json(200, posts))
                           ELSE Continue(c, [r EXCEPT !.platforms = Tail(@),
                                                      !.posts = posts])
              /\ UNCHANGED faults
           \/ /\ Fault                               \* createSocialPost throws
              /\ Finish(c, PostsFailed)
              /\ UNCHANGED socialPosts
           \/ /\ Finish(c, PostsFailed)               \* the Executor throws
              /\ UNCHANGED <<socialPosts, faults>>
    /\ UNCHANGED <<tasks, projects, files, activityLogs, notifications, now>>

\* ------------------------------------------------------- specifications
Posts ==
    \/ \E u \in Users, id \in FileIds : PostsGetFile(u, id)
    \/ \E c \in DOMAIN reqs : PostsGenerate(c)

Triage ==
    \/ \E u \in Users, id \in TaskIds : TriageGetTask(u, id)
    \/ \E c \in DOMAIN reqs, reply \in ClassifierReplies : TriageClassify(c, reply)

Execute ==
    \/ \E u \in Users, id \in TaskIds : ExecuteGetTask(u, id)
    \/ \E c \in DOMAIN reqs : ExecuteMarkInProgress(c)
    \/ \E c \in DOMAIN reqs : ExecuteGenerate(c)
    \/ \E c \in DOMAIN reqs : ExecuteLog(c)

Import ==
    \/ \E u \in Users, folderName \in FolderNames, fileName \in FileNames :
          ImportSaveFile(u, folderName, fileName)
    \/ \E c \in DOMAIN reqs, reply \in ParseReplies(MaxCalls - calls) :
          ImportParse(c, reply)
    \/ \E c \in DOMAIN reqs : ImportCreateTask(c)
    \/ \E c \in DOMAIN reqs, reply \in ClassifierReplies : ImportTriage(c, reply)
    \/ \E c \in DOMAIN reqs : ImportNotify(c)

\* Imports of files whose entries carry any priority.
ImportWritten ==
    \/ \E u \in Users, folderName \in FolderNames, fileName \in FileNames :
          ImportSaveFile(u, folderName, fileName)
    \/ \E c \in DOMAIN reqs, reply \in ParseRepliesOf(WrittenEntries, MaxCalls - calls) :
          ImportParse(c, reply)
    \/ \E c \in DOMAIN reqs : ImportCreateTask(c)
    \/ \E c \in DOMAIN reqs, reply \in ClassifierReplies : ImportTriage(c, reply)
    \/ \E c \in DOMAIN reqs : ImportNotify(c)

Create == \E u \in Users, body \in TaskBodies : CreateTask(u, body)

CreateAs == \E u \in Users, body \in StatusTaskBodies : CreateTask(u, body)

Dashboard ==
    \/ \E u \in Users : DashboardStats(u)
    \/ \E u \in Users : UrgentTasks(u)

\* Executions of the oldest task.
ExecuteOldest ==
    \/ \E u \in Users : ExecuteGetTask(u, 1)
    \/ \E c \in DOMAIN reqs : ExecuteMarkInProgress(c)
    \/ \E c \in DOMAIN reqs : ExecuteGenerate(c)
    \/ \E c \in DOMAIN reqs : ExecuteLog(c)

Read == \E u \in Users, id \in 1..(Len(tasks) + 1) : GetTask(u, id)

CreateIn == \E u \in Users, body \in ProjectTaskBodies : CreateTask(u, body)

List == \E u \in Users, filters \in TaskFilters : ListTasks(u, filters)

Update == \E u \in Users, id \in TaskIds, input \in UpdateBodies : UpdateTask(u, id, input)

Project == \E u \in Users, name \in ProjectNames : CreateProject(u, name)

\* Every handler of the model.
Next == Create \/ Project \/ Import \/ Triage \/ Execute
Spec == Init /\ [][Next]_vars

\* Tasks entered by hand, then triaged and executed.
NextTasks == Create \/ Triage \/ Execute
SpecTasks == Init /\ [][NextTasks]_vars

\* The same over a store that never throws.
InitReliable ==
    /\ tasks = <<>>
    /\ projects = <<>>
    /\ files = <<>>
    /\ socialPosts = <<>>
    /\ activityLogs = <<>>
    /\ notifications = <<>>
    /\ reqs = <<>>
    /\ calls = 0
    /\ last = Answered(NewReq("none", Null, NoId), 0, NoResp)
    /\ now = 1
    /\ faults = MaxFaults
SpecReliable == InitReliable /\ [][NextTasks]_vars

\* Tasks entered by hand and executed, over a store that never throws and
\* with every suspended execute request resumed in the end: the store
\* answers each awaited operation and the Executor returns or throws.
ExecuteResumes ==
    \A c \in 1..MaxCalls :
       /\ WF_vars(ExecuteMarkInProgress(c))
       /\ WF_vars(ExecuteGenerate(c))
       /\ WF_vars(ExecuteLog(c))
NextRuns == Create \/ Execute
SpecProgress == InitReliable /\ [][NextRuns]_vars /\ ExecuteResumes

\* The pipeline alone: every task comes from an import.
NextPipeline == Import \/ Triage \/ Execute
SpecPipeline == Init /\ [][NextPipeline]_vars

\* Tasks read, triaged and executed by their owner or by someone else,
\* over a store that never throws.
NextTenants == Create \/ Read \/ Triage \/ Execute
SpecTenants == InitReliable /\ [][NextTenants]_vars

\* Tasks created in projects or outside, and listed.
NextLists == Project \/ CreateIn \/ List
SpecLists == Init /\ [][NextLists]_vars

\* Projects, and tasks put into them by hand or by an import.
NextProjects == Project \/ CreateIn \/ Update \/ Import
SpecProjects == Init /\ [][NextProjects]_vars

\* Imports alone, overlapping or not.
NextBatches == Import
SpecBatches == Init /\ [][NextBatches]_vars

\* Imports into the projects of their users.
NextImports == Project \/ Import
SpecImports == Init /\ [][NextImports]_vars

\* The two ways in which a task enters the store.
NextEntries == CreateAs \/ Import
SpecEntries == Init /\ [][NextEntries]_vars

\* Imports of files written with any priority.
NextPriorities == ImportWritten
SpecPriorities == Init /\ [][NextPriorities]_vars

\* The dashboard of a store that holds one task more than the urgent list
\* shows, all of alice and waiting for her; the store never throws.
RECURSIVE Backlog(_)
Backlog(n) ==
    IF n = 0 THEN <<>>
    ELSE createTask(Backlog(n - 1),
                    [userId |-> "alice", title |-> "t", category |-> "human_required"])
InitDashboard ==
    /\ tasks = Backlog(UrgentLimit + 1)
    /\ projects = <<>>
    /\ files = <<>>
    /\ socialPosts = <<>>
    /\ activityLogs = <<>>
    /\ notifications = <<>>
    /\ reqs = <<>>
    /\ calls = 0
    /\ last = Answered(NewReq("none", Null, NoId), 0, NoResp)
    /\ now = 1
    /\ faults = MaxFaults
NextDashboard == Create \/ ExecuteOldest \/ Dashboard
SpecDashboard == InitDashboard /\ [][NextDashboard]_vars

\* Posts generated from a file that an import has saved.
InitPosts ==
    /\ tasks = <<>>
    /\ projects = <<>>
    /\ files = createFile(<<>>, [userId |-> "alice", name |-> "tasks.txt",
                                 source |-> "google_drive", type |-> "input"])
    /\ socialPosts = <<>>
    /\ activityLogs = <<>>
    /\ notifications = <<>>
    /\ reqs = <<>>
    /\ calls = 0
    /\ last = Answered(NewReq("none", Null, NoId), 0, NoResp)
    /\ now = 1
    /\ faults = 0
NextPosts == Posts
SpecPosts == InitPosts /\ [][NextPosts]_vars

\* --------------------------------------------------------------- claims
IsEnvelope(resp, success) ==
    IF "body" \in DOMAIN resp
    THEN IF "success" \in DOMAIN resp.body THEN resp.body.success = success ELSE FALSE
    ELSE FALSE

\* Request c, suspended in the execute handler, resumes in this step and
\* applies the completed write.
CompletedWrite(c) ==
    /\ At(c, "execute", "generate")
    /\ c \in DOMAIN reqs'
    /\ reqs'[c].pc = "log"
\* An execute request is answered in this step from the catch block, whose
\* failed write was applied.
FailedWrite ==
    /\ last'.c # last.c
    /\ last'.kind = "execute"
    /\ last'.error # NoError
    /\ IsEnvelope(last'.resp, FALSE)
\* Request c, suspended at pc, is answered in this step.
AnsweredFrom(c, kind, pc) ==
    /\ At(c, kind, pc)
    /\ c \notin DOMAIN reqs'
    /\ last'.c = c

\* No request is being handled: the state after a sequence of calls.
Quiescent == DOMAIN reqs = {}

\* C1: after any sequence of calls, every stored task has status completed
\* if and only if its completedAt is set.
C1_CompletedIffCompletedAt ==
    Quiescent =>
        \A id \in DOMAIN tasks :
            (tasks[id].status = "completed") <=> (tasks[id].completedAt # NoTime)

\* C2: after any sequence of execute calls, every task with status
\* completed has no errorMessage (a successful execute clears the
\* errorMessage of an earlier failure).
C2_CompletedHasNoErrorMessage ==
    Quiescent =>
        \A id \in DOMAIN tasks :
            tasks[id].status = "completed" => tasks[id].errorMessage = Null

\* C3: in every state of the pipeline (import, triage, execute), during
\* and after the calls, every task with status failed carries an
\* errorMessage, and it is the message of a failure of execute.
C3_FailedHasErrorMessage ==
    \A id \in DOMAIN tasks :
        tasks[id].status = "failed" =>
            /\ tasks[id].errorMessage # Null
            /\ tasks[id].errorMessage \in
                   {"quota exceeded", "Unknown error", "connection terminated"}

\* An imported task whose execute failed on the Executor's quota error.
C3_Witness ==
    \E id \in DOMAIN tasks :
        /\ tasks[id].sourceFile = "tasks.txt"
        /\ tasks[id].status = "failed"
        /\ tasks[id].errorMessage = "quota exceeded"

\* C4: every write that sets a task's status to completed or failed is
\* applied to a task whose status at that moment is in_progress.
C4_OnlyFromInProgress ==
    [][/\ \A c \in DOMAIN reqs :
              CompletedWrite(c) => tasks[reqs[c].id].status = "in_progress"
       /\ (FailedWrite /\ last'.id \in DOMAIN tasks) =>
              tasks[last'.id].status = "in_progress"]_vars

\* C5: when the Executor call of an execute fails with message M, the catch
\* block leaves the task failed with errorMessage M, no write of the call
\* has touched result or completedAt, no ActivityLog entry is appended, and
\* the response is the 200 envelope {success: false, error: M}.
C5_ExecutorFailureIsReported ==
    [][\A c \in DOMAIN reqs :
          LET id == reqs[c].id
              Kept == /\ tasks'[id].result = tasks[id].result
                      /\ tasks'[id].completedAt = tasks[id].completedAt
                      /\ activityLogs' = activityLogs
          IN  /\ (At(c, "execute", "markInProgress") /\ c \in DOMAIN reqs'
                    /\ reqs'[c].pc = "generate") => Kept
              /\ (AnsweredFrom(c, "execute", "generate")
                    /\ last'.error \in ExecutorThrows /\ faults' = faults) =>
                   LET M == IF last'.error.isError THEN last'.error.message
                            ELSE "Unknown error"
                   IN  /\ tasks'[id].status = "failed"
                       /\ tasks'[id].errorMessage = M
                       /\ Kept
                       /\ last'.resp = [status |-> 200,
                                        body |-> [success |-> FALSE, error |-> M]]]_vars

\* A task that an earlier execute completed, just failed by the Executor's
\* quota error: it keeps its result and its completedAt.
C5_Witness ==
    /\ last.kind = "execute"
    /\ last.error = [isError |-> TRUE, message |-> "quota exceeded"]
    /\ IsEnvelope(last.resp, FALSE)
    /\ tasks[last.id].status = "failed"
    /\ tasks[last.id].result = "Report generated."
    /\ tasks[last.id].completedAt # NoTime

C7_StoreFailurePropagates ==
    /\ (last.kind = "execute" /\ last.error = DbError) => ~IsEnvelope(last.resp, FALSE)
    /\ \A id \in DOMAIN tasks : tasks[id].errorMessage # DbError.message

\* The Classifier answered, and its text is no JSON or carries no category
\* of the three.
Malformed(reply) ==
    IF reply.throws THEN FALSE
    ELSE IF ~reply.wellFormed THEN TRUE
    ELSE IF "category" \notin DOMAIN reply.value THEN TRUE
    ELSE reply.value.category \notin TriageCategories

\* C8: a triage whose Classifier output is malformed is answered with an
\* error and leaves the task's stored category as it was.
C8_MalformedTriageFails ==
    [][\A c \in DOMAIN reqs :
          (AnsweredFrom(c, "triage", "classify") /\ Malformed(last'.reply)) =>
              /\ last'.resp.status >= 400
              /\ tasks'[reqs[c].id].category = tasks[reqs[c].id].category]_vars

\* C9: after any sequence of triage calls and imports, every stored task's
\* category is one of pending, auto_execute, delegate_agent,
\* human_required.
C9_CategoryDomain ==
    Quiescent => \A id \in DOMAIN tasks : tasks[id].category \in Categories

\* C10: a triage answered with one of the three categories has written
\* that category and nothing else to the task's row, has left every other
\* row alone, and has returned the Classifier's object, confidence and
\* reasoning included.
C10_TriageWritesCategoryOnly ==
    [][\A c \in DOMAIN reqs :
          (AnsweredFrom(c, "triage", "classify") /\ last'.resp.status = 200
             /\ ~Malformed(last'.reply)) =>
              LET value == last'.reply.value
              IN  /\ tasks' = [tasks EXCEPT ![reqs[c].id].category = value.category]
                  /\ last'.resp.body = value
                  /\ {"confidence", "reasoning"} \subseteq DOMAIN last'.resp.body]_vars

\* A task that was executed and then triaged as auto_execute: its status
\* and result are still those of the execution.
C10_Witness ==
    /\ last.kind = "triage"
    /\ last.resp.status = 200
    /\ ~Malformed(last.reply)
    /\ tasks[last.id].category = "auto_execute"
    /\ tasks[last.id].status = "completed"
    /\ tasks[last.id].result = "Report generated."

\* Request c, suspended in a handler, resumes in this step.
Resumes(c) == c \notin DOMAIN reqs' \/ reqs'[c] # reqs[c]

\* C11: in an import, the iteration whose triage fails (the Classifier
\* throws, its text is no JSON, or the category update fails) leaves the
\* stored task as it was created, with category pending, pushes it and goes
\* on with the remaining entries; each entry gets a task, an iteration whose
\* triage succeeds stores the category returned for it and touches no
\* other task, and after the loop the import answers 200 with all of them.
C11_TriageFailureKeepsBatch ==
    [][\A c \in DOMAIN reqs :
          /\ (At(c, "import", "loop") /\ reqs[c].entries # <<>> /\ Resumes(c)
                /\ faults' = faults) =>
                 /\ c \in DOMAIN reqs'
                 /\ reqs'[c].pc = "triage"
                 /\ Len(tasks') = Len(tasks) + 1
                 /\ tasks'[Len(tasks')].category = "pending"
          /\ (At(c, "import", "triage") /\ Resumes(c)) =>
                 LET id == reqs[c].task.id
                     reply == reqs'[c].reply
                     failed == IF faults' # faults THEN TRUE ELSE ParseThrows(reply)
                 IN  /\ c \in DOMAIN reqs'
                     /\ reqs'[c].pc = "loop"
                     /\ reqs'[c].entries = Tail(reqs[c].entries)
                     /\ Len(reqs'[c].createdTasks) = Len(reqs[c].createdTasks) + 1
                     /\ \A i \in DOMAIN tasks \ {id} : tasks'[i] = tasks[i]
                     /\ failed => /\ tasks' = tasks
                                  /\ reqs'[c].createdTasks[Len(reqs'[c].createdTasks)]
                                       = [id |-> id, category |-> "pending"]
                     /\ (~failed /\ "category" \in DOMAIN reply.value) =>
                            tasks'[id].category = reply.value.category
          /\ (At(c, "import", "loop") /\ reqs[c].entries = <<>> /\ Resumes(c)
                /\ faults' = faults) =>
                 /\ last'.c = c
                 /\ last'.resp.status = 200
                 /\ last'.resp.body.tasks = reqs[c].createdTasks
                 /\ tasks' = tasks]_vars

\* An import of two entries answered 200: the triage of the first failed
\* and its task is stored pending, the second is stored auto_execute.
C11_Witness ==
    /\ last.kind = "import"
    /\ last.resp.status = 200
    /\ Len(last.resp.body.tasks) = 2
    /\ last.resp.body.tasks[1].category = "pending"
    /\ last.resp.body.tasks[2].category = "auto_execute"
    /\ tasks[last.resp.body.tasks[1].id].category = "pending"
    /\ tasks[last.resp.body.tasks[2].id].category = "auto_execute"

\* The parse prompt was answered with a text that is no JSON, or with JSON
\* that has no tasks list.
ParseMalformed(reply) ==
    IF reply.throws THEN FALSE
    ELSE IF ~reply.wellFormed THEN TRUE
    ELSE "tasks" \notin DOMAIN reply.value

\* C12: an import whose parse response is malformed answers 500 and the
\* store holds no File created by that call.
C12_MalformedParsePersistsNothing ==
    [][\A c \in DOMAIN reqs :
          (AnsweredFrom(c, "import", "parse") /\ ParseMalformed(last'.reply)) =>
              /\ last'.resp.status = 500
              /\ \A i \in DOMAIN files' : files'[i].id # reqs[c].savedFile]_vars

\* C13: a generation run goes on to the next platform whatever the outcome
\* of the Executor call and of the save for the current one.
C13_PlatformsAreIndependent ==
    [][\A c \in DOMAIN reqs :
          (At(c, "posts", "generate") /\ Resumes(c) /\ Len(reqs[c].platforms) > 1) =>
              /\ c \in DOMAIN reqs'
              /\ reqs'[c].platforms = Tail(reqs[c].platforms)]_vars

\* The posts of a file for a platform.
PostsOf(ps, file, platform) ==
    {i \in DOMAIN ps : ps[i].masterDocumentId = file /\ ps[i].platform = platform}

\* C14: posts are only ever appended; an iteration that succeeds appends
\* one draft post of the file for its platform, the platforms being taken
\* in the fixed order; the run whose six iterations succeed answers with
\* its six posts, one per platform in that order, all stored as drafts.
C14_SixDraftsPerRun ==
    [][/\ Len(socialPosts') >= Len(socialPosts)
       /\ SubSeq(socialPosts', 1, Len(socialPosts)) = socialPosts
       /\ \A c \in DOMAIN reqs :
             (At(c, "posts", "generate") /\ Resumes(c) /\ socialPosts' # socialPosts) =>
                LET r == reqs[c]
                    done == Len(r.posts)
                    post == socialPosts'[Len(socialPosts')]
                IN  /\ Len(socialPosts') = Len(socialPosts) + 1
                    /\ post.platform = platforms[done + 1]
                    /\ post.masterDocumentId = r.id
                    /\ post.status = "draft"
                    /\ \A pf \in {platforms[i] : i \in DOMAIN platforms} :
                          Cardinality(PostsOf(socialPosts', r.id, pf)) =
                            Cardinality(PostsOf(socialPosts, r.id, pf))
                              + (IF pf = post.platform THEN 1 ELSE 0)
                    /\ IF done + 1 < Len(platforms)
                       THEN /\ c \in DOMAIN reqs'
                            /\ reqs'[c].posts = Append(r.posts, post)
                       ELSE /\ last'.c = c
                            /\ last'.resp.status = 200
                            /\ last'.resp.body = Append(r.posts, post)
                            /\ [i \in 1..6 |-> last'.resp.body[i].platform] = platforms
                            /\ \A i \in 1..6 :
                                  /\ last'.resp.body[i].status = "draft"
                                  /\ last'.resp.body[i].masterDocumentId = r.id
                                  /\ socialPosts'[last'.resp.body[i].id] = last'.resp.body[i]
                            /\ \A i, j \in 1..6 :
                                  i < j => last'.resp.body[i].id < last'.resp.body[j].id]_vars

\* Two runs on file 1 have succeeded and no other has stored a post: the
\* file owns twelve posts, two per platform.
C14_Witness ==
    /\ Quiescent
    /\ last.kind = "posts"
    /\ last.resp.status = 200
    /\ Len(socialPosts) = 12
    /\ \A i \in DOMAIN platforms : Cardinality(PostsOf(socialPosts, 1, platforms[i])) = 2

\* An execute request is in flight for task id.
Executing(id) ==
    \E c \in DOMAIN reqs : reqs[c].kind = "execute" /\ reqs[c].id = id

\* A request of the given kind arrives in this step and is answered in it.
AnsweredOnArrival(kind) ==
    /\ calls' = calls + 1
    /\ last'.c = calls + 1
    /\ last'.kind = kind

\* C15: a failed task stays failed in every step taken while no execute
\* request is in flight for it; an execute request arriving for a failed
\* task is admitted (only a failing read of the store answers it at once);
\* and the request writes in_progress, then completed or failed.
C15_FailedUntilReExecuted ==
    [][/\ \A id \in DOMAIN tasks :
             (tasks[id].status = "failed" /\ ~Executing(id)) =>
                 tasks'[id].status = "failed"
       /\ (AnsweredOnArrival("execute") /\ last'.id \in DOMAIN tasks) =>
             (tasks[last'.id].status = "failed" => faults' # faults)
       /\ \A c \in DOMAIN reqs :
             LET id == reqs[c].id
             IN  /\ (At(c, "execute", "markInProgress") /\ Resumes(c)
                       /\ faults' = faults) =>
                        /\ c \in DOMAIN reqs'
                        /\ reqs'[c].pc = "generate"
                        /\ tasks'[id].status = "in_progress"
                 /\ (At(c, "execute", "generate") /\ Resumes(c)
                       /\ faults' = faults) =>
                        tasks'[id].status \in {"completed", "failed"}]_vars

\* The third request, an execute of a task that carries the errorMessage
\* of an earlier failure, has written in_progress and waits for the
\* Executor; nothing else is in flight.
C15_Witness ==
    /\ DOMAIN reqs = {3}
    /\ reqs[3].kind = "execute"
    /\ reqs[3].pc = "generate"
    /\ tasks[reqs[3].id].status = "in_progress"
    /\ tasks[reqs[3].id].errorMessage = "quota exceeded"

\* C16: over a store whose reads succeed, a triage or execute request for
\* an id that no task has is answered 404 on arrival, leaving tasks,
\* activity logs and notifications as they were; it never reaches the
\* Classifier or the Executor, which only a suspended request calls.
C16_NotFound ==
    [][/\ \A c \in DOMAIN reqs' :
             reqs'[c].kind \in {"triage", "execute"} => reqs'[c].id \in DOMAIN tasks'
       /\ \A kind \in {"triage", "execute"} :
             (AnsweredOnArrival(kind) /\ last'.id \notin DOMAIN tasks) =>
                 /\ last'.resp = [status |-> 404, body |-> [message |-> "Task not found"]]
                 /\ UNCHANGED <<tasks, activityLogs, notifications>>]_vars

\* An execute of id 2, answered 404 while the store holds task 1 alone.
C16_Witness ==
    /\ last.kind = "execute"
    /\ last.resp.status = 404
    /\ last.id = 2
    /\ Len(tasks) = 1

\* C17: a task is not visible to a user who does not own it: a get of it
\* by another user answers 404, a triage or an execute of it by another
\* user is not taken past the lookup of the task, and no resumption of
\* such a request changes the task.
C17_TaskInvisibleToOthers ==
    [][/\ (AnsweredOnArrival("get") /\ last'.id \in DOMAIN tasks) =>
             (tasks[last'.id].userId # last'.userId => last'.resp.status = 404)
       /\ \A c \in DOMAIN reqs' :
             (reqs'[c].kind \in {"triage", "execute"} /\ reqs'[c].id \in DOMAIN tasks') =>
                 tasks'[reqs'[c].id].userId = reqs'[c].userId
       /\ \A c \in DOMAIN reqs :
             (reqs[c].kind \in {"triage", "execute"} /\ Resumes(c)
                /\ reqs[c].id \in DOMAIN tasks
                /\ tasks[reqs[c].id].userId # reqs[c].userId) =>
                 tasks'[reqs[c].id] = tasks[reqs[c].id]]_vars

\* C18: whatever filters are given, a list of tasks answered to a user
\* holds tasks of that user only.
C18_ListIsOfTheCaller ==
    [][(AnsweredOnArrival("list") /\ last'.resp.status = 200) =>
          \A i \in DOMAIN last'.resp.body : last'.resp.body[i].userId = last'.userId]_vars

\* A list answered with one task, while the store holds a task of another
\* user with the same project, category and status.
C18_Witness ==
    /\ last.kind = "list"
    /\ last.resp.status = 200
    /\ Len(last.resp.body) = 1
    /\ \E i \in DOMAIN tasks :
          /\ tasks[i].userId # last.userId
          /\ tasks[i].projectId = last.resp.body[1].projectId
          /\ tasks[i].category = last.resp.body[1].category
          /\ tasks[i].status = last.resp.body[1].status

\* The project of task t is of the user who owns t.
OwnProject(t) ==
    \A j \in DOMAIN projects : projects[j].id = t.projectId => projects[j].userId = t.userId

\* C19: after any sequence of task creations, task updates and imports, no
\* task references a project of another user than its owner.
C19_NoCrossTenantProject ==
    Quiescent => \A i \in DOMAIN tasks : OwnProject(tasks[i])

\* C20: the task an import creates for an entry is put into a project of
\* the importing user whose name contains the entry's projectName, letter
\* case set aside, when the entry has a projectName and such a project
\* exists, and into no project otherwise; no step of an import changes the
\* projects.
C20_ImportResolvesOwnProject ==
    [][\A c \in DOMAIN reqs :
          (reqs[c].kind = "import" /\ Resumes(c)) =>
             /\ projects' = projects
             /\ (reqs[c].pc = "loop" /\ reqs[c].entries # <<>> /\ tasks' # tasks) =>
                   LET entry == Head(reqs[c].entries)
                       task == tasks'[Len(tasks')]
                       Candidates ==
                           IF "projectName" \in DOMAIN entry
                           THEN {j \in DOMAIN projects :
                                   /\ projects[j].userId = reqs[c].userId
                                   /\ Includes(ToLowerCase(projects[j].name),
                                               ToLowerCase(entry.projectName))}
                           ELSE {}
                   IN  /\ Len(tasks') = Len(tasks) + 1
                       /\ task.userId = reqs[c].userId
                       /\ IF Candidates = {}
                          THEN task.projectId = NoId
                          ELSE \E j \in Candidates : task.projectId = projects[j].id]_vars

\* An import answered 200 whose one task was put into a project, while
\* the store holds no other project than that one.
C20_Witness ==
    /\ last.kind = "import"
    /\ last.resp.status = 200
    /\ Len(projects) = 1
    /\ Len(tasks) = 1
    /\ tasks[1].projectId = 1
    /\ tasks[1].sourceFile = "tasks.txt"


\* The import request c creates a task in this step.
ImportCreates(c) ==
    /\ At(c, "import", "loop")
    /\ c \in DOMAIN reqs'
    /\ reqs'[c].pc = "triage"

Priorities == {"low", "medium", "high", "urgent"}

\* C21: every task an import creates has category pending and status
\* pending, carries the name of the imported file as sourceFile, and has a
\* priority of low, medium, high or urgent: the priority of its entry when
\* that is one of the four, medium otherwise.
C21_ImportedTaskFields ==
    [][\A c \in DOMAIN reqs :
          ImportCreates(c) =>
              LET t == tasks'[Len(tasks')]
                  taskData == Head(reqs[c].entries)
              IN  /\ Len(tasks') = Len(tasks) + 1
                  /\ t.category = "pending"
                  /\ t.status = "pending"
                  /\ t.sourceFile = reqs[c].fileName
                  /\ t.priority \in Priorities
                  /\ t.priority = IF /\ "priority" \in DOMAIN taskData
                                     /\ taskData.priority \in Priorities
                                  THEN taskData.priority
                                  ELSE "medium"]_vars

\* The File Source holds no such folder, or no such file in it.
Unresolved(folderName, fileName) ==
    \/ folderName \notin DOMAIN Drive
    \/ fileName \notin Drive[folderName]

\* C22: an import naming a folder or a file that the File Source does not
\* hold is answered on arrival, with 404 and a message naming what is
\* missing (with 500 when the File Source itself throws); it persists
\* nothing, attempts no store operation, and is never suspended, so that
\* no prompt goes to the Classifier.
C22_UnresolvedIsNotFound ==
    [][\A u \in Users, folderName \in FolderNames, fileName \in FileNames :
          (Unresolved(folderName, fileName) /\ ImportSaveFile(u, folderName, fileName)) =>
              /\ AnsweredOnArrival("import")
              /\ \/ last'.resp = ImportFailed
                 \/ /\ last'.resp.status = 404
                    /\ last'.resp.body.message =
                           IF folderName \notin DOMAIN Drive
                           THEN <<"Folder '", folderName, "' not found">>
                           ELSE <<"File '", fileName, "' not found in folder">>
              /\ last'.reply = NoReply
              /\ UNCHANGED <<tasks, projects, files, socialPosts, activityLogs,
                             notifications, reqs, faults>>]_vars

\* An import of a file that the folder does not hold was answered 404,
\* after an earlier import had saved its file.
C22_Witness ==
    /\ last.kind = "import"
    /\ last.resp.status = 404
    /\ last.resp.body.message = <<"File '", "notes.txt", "' not found in folder">>
    /\ Len(files) = 1
    /\ Quiescent

\* The suspended import request c is answered in this step.
ImportAnswered(c) ==
    /\ reqs[c].kind = "import"
    /\ c \notin DOMAIN reqs'
    /\ last'.c = c

\* C23: an import answered 200 appends, in the step that answers it and
\* with no entry left to create or triage, exactly one file_processed
\* ActivityLog and exactly one info Notification titled "Tasks Imported",
\* each stating the number of tasks created; no other step of an import
\* appends either, and an import that is answered with a failure appends
\* neither.
C23_OneLogOneNotification ==
    [][/\ \A c \in DOMAIN reqs :
             (ImportAnswered(c) /\ last'.resp.status = 200) =>
                 /\ reqs[c].pc = "loop"
                 /\ reqs[c].entries = <<>>
                 /\ Len(activityLogs') = Len(activityLogs) + 1
                 /\ SubSeq(activityLogs', 1, Len(activityLogs)) = activityLogs
                 /\ activityLogs'[Len(activityLogs')].action = "file_processed"
                 /\ activityLogs'[Len(activityLogs')].imported = Len(reqs[c].createdTasks)
                 /\ Len(notifications') = Len(notifications) + 1
                 /\ SubSeq(notifications', 1, Len(notifications)) = notifications
                 /\ notifications'[Len(notifications')].type = "info"
                 /\ notifications'[Len(notifications')].title = "Tasks Imported"
                 /\ notifications'[Len(notifications')].imported = Len(reqs[c].createdTasks)
       /\ (\A c \in DOMAIN reqs : ~(ImportAnswered(c) /\ last'.resp.status = 200)) =>
             UNCHANGED <<activityLogs, notifications>>]_vars

\* The rows among the returned tasks that the store holds with the category.
StoredWith(ts, returned, category) ==
    {i \in DOMAIN returned : ts[returned[i].id].category = category}

\* C24: every iteration of an import creates one task and returns it, so
\* that an import of n entries answered 200 has created and returns n
\* tasks, each with the category the store holds for it; summary.total is
\* n; autoExecute, delegated and humanRequired are the numbers of returned
\* tasks stored with that category; and the three counts sum to n.
C24_SummaryCountsTheBatch ==
    [][\A c \in DOMAIN reqs :
          /\ (reqs[c].kind = "import" /\ reqs[c].pc \in {"loop", "triage"}
                 /\ c \in DOMAIN reqs') =>
                /\ Len(reqs'[c].createdTasks) + Len(reqs'[c].entries)
                      = Len(reqs[c].createdTasks) + Len(reqs[c].entries)
                /\ ImportCreates(c) =>
                      /\ Len(tasks') = Len(tasks) + 1
                      /\ reqs'[c].task.id = Len(tasks')
                      /\ reqs'[c].createdTasks = reqs[c].createdTasks
                /\ (reqs[c].pc = "triage" /\ reqs'[c].pc = "loop") =>
                      /\ Len(tasks') = Len(tasks)
                      /\ Len(reqs'[c].createdTasks) = Len(reqs[c].createdTasks) + 1
                      /\ reqs'[c].createdTasks[Len(reqs'[c].createdTasks)].id
                            = reqs[c].task.id
          /\ (ImportAnswered(c) /\ last'.resp.status = 200) =>
                LET body == last'.resp.body
                    n == Len(reqs[c].createdTasks)
                IN  /\ reqs[c].entries = <<>>
                    /\ Len(body.tasks) = n
                    /\ \A i, j \in 1..n : i # j => body.tasks[i].id # body.tasks[j].id
                    /\ \A i \in 1..n :
                          /\ body.tasks[i].id \in DOMAIN tasks'
                          /\ body.tasks[i].category = tasks'[body.tasks[i].id].category
                    /\ body.summary.total = n
                    /\ body.summary.autoExecute
                          = Cardinality(StoredWith(tasks', body.tasks, "auto_execute"))
                    /\ body.summary.delegated
                          = Cardinality(StoredWith(tasks', body.tasks, "delegate_agent"))
                    /\ body.summary.humanRequired
                          = Cardinality(StoredWith(tasks', body.tasks, "human_required"))
                    /\ body.summary.autoExecute + body.summary.delegated
                          + body.summary.humanRequired = n]_vars

\* The tasks of the user that wait for the human.
PendingAttention(ts, userId) ==
    {i \in DOMAIN ts : /\ ts[i].userId = userId
                       /\ ts[i].category = "human_required"
                       /\ ts[i].status = "pending"}
\* The tasks of the user that have failed.
Errors(ts, userId) ==
    {i \in DOMAIN ts : ts[i].userId = userId /\ ts[i].status = "failed"}

\* C25: the dashboard statistics answered to a user carry, as
\* pendingAttention, the number of the user's tasks with category
\* human_required and status pending and, as errorCount, the number of the
\* user's tasks with status failed; the urgent list answered to a user is
\* min(UrgentLimit, pendingAttention) tasks of that set, newest first; and
\* in the state that the failed write of an execute leaves, the errorCount
\* of the task's user counts that task.
C25_DashboardCounts ==
    [][/\ (AnsweredOnArrival("stats") /\ last'.resp.status = 200) =>
             /\ last'.resp.body.pendingAttention
                   = Cardinality(PendingAttention(tasks, last'.userId))
             /\ last'.resp.body.errorCount = Cardinality(Errors(tasks, last'.userId))
       /\ (AnsweredOnArrival("urgent") /\ last'.resp.status = 200) =>
             LET rows == last'.resp.body
                 n == Cardinality(PendingAttention(tasks, last'.userId))
             IN  /\ Len(rows) = IF n < UrgentLimit THEN n ELSE UrgentLimit
                 /\ \A i \in DOMAIN rows :
                       /\ rows[i].id \in PendingAttention(tasks, last'.userId)
                       /\ rows[i] = tasks[rows[i].id]
                 /\ \A i, j \in DOMAIN rows : i < j => rows[i].id > rows[j].id
                 /\ \A k \in PendingAttention(tasks, last'.userId) :
                       (\E i \in DOMAIN rows : rows[i].id = k)
                       \/ (Len(rows) = UrgentLimit /\ k < rows[Len(rows)].id)
       /\ FailedWrite =>
             LET t == tasks'[last'.id]
             IN  /\ t.status = "failed"
                 /\ last'.id \in Errors(tasks', t.userId)
                 /\ getDashboardStats(tasks', projects', t.userId).errorCount
                       = Cardinality(Errors(tasks', t.userId))
                 /\ getDashboardStats(tasks', projects', t.userId).errorCount >= 1]_vars

\* The urgent list was answered to alice with its limit of tasks while one
\* more was waiting for her, after an execute had failed.
C25_Witness ==
    /\ last.kind = "urgent"
    /\ last.resp.status = 200
    /\ Len(last.resp.body) = UrgentLimit
    /\ Cardinality(PendingAttention(tasks, "alice")) = UrgentLimit + 1
    /\ Errors(tasks, "alice") # {}

\* C26: every task enters the store with status pending, and with category
\* pending unless the request that creates it gives a category; for the
\* create-task request and for the import.
C26_EntersPending ==
    [][/\ Len(tasks') > Len(tasks) =>
             /\ Len(tasks') = Len(tasks) + 1
             /\ tasks'[Len(tasks')].status = "pending"
       /\ \A u \in Users, body \in StatusTaskBodies :
             (CreateTask(u, body) /\ Len(tasks') > Len(tasks)) =>
                 tasks'[Len(tasks')].category
                     = IF "category" \in DOMAIN body THEN body.category ELSE "pending"
       /\ \A c \in DOMAIN reqs :
             ImportCreates(c) => tasks'[Len(tasks')].category = "pending"]_vars

\* C27: over a store whose operations succeed, an execute request for a
\* stored task is admitted whether or not another one is in flight for the
\* same task (only a task that is not found is answered on arrival);
\* every admitted request goes on to the Executor; the final write of a
\* request sets the status to its own outcome whatever the other request
\* has written; no other step changes a status; and when the last request
\* in flight for a task is answered the task is completed or failed.
C27_OverlappingExecutes ==
    [][/\ AnsweredOnArrival("execute") =>
             /\ getTask(last'.id) = <<>>
             /\ last'.resp.status = 404
       /\ \A c \in DOMAIN reqs :
             /\ (At(c, "execute", "markInProgress") /\ Resumes(c)) =>
                   /\ c \in DOMAIN reqs'
                   /\ reqs'[c].pc = "generate"
                   /\ tasks'[reqs[c].id].status = "in_progress"
             /\ (At(c, "execute", "generate") /\ Resumes(c)) =>
                   tasks'[reqs[c].id].status
                       = IF CompletedWrite(c) THEN "completed" ELSE "failed"
       /\ \A id \in DOMAIN tasks :
             /\ tasks'[id].status # tasks[id].status =>
                   \E c \in DOMAIN reqs :
                      /\ reqs[c].kind = "execute"
                      /\ reqs[c].id = id
                      /\ reqs[c].pc \in {"markInProgress", "generate"}
                      /\ Resumes(c)
             /\ (Executing(id) /\ ~Executing(id)') =>
                   tasks'[id].status \in {"completed", "failed"}]_vars

\* Two execute requests are in flight for one task: the first has written
\* completed, and the second has then written in_progress over it.
C27_Witness ==
    \E c, d \in DOMAIN reqs :
       /\ At(c, "execute", "log")
       /\ At(d, "execute", "generate")
       /\ reqs[c].id = reqs[d].id
       /\ tasks[reqs[c].id].status = "in_progress"
       /\ tasks[reqs[c].id].completedAt # NoTime

\* Request c has left the Executor behind: it has applied its completed or
\* failed write.
PastFinalWrite(c) == c \notin DOMAIN reqs \/ reqs[c].pc = "log"

\* C28: over a store whose operations succeed and with every suspended
\* execute request resumed in the end, a request reaches the Executor only
\* through the step that writes in_progress; every request that has found
\* its task gets to its completed or failed write; and a task is
\* in_progress only while a request that wrote it is at the Executor, so
\* that no task is in_progress when no execute request is in flight.
C28_ExecuteRunsToCompletion ==
    /\ [][\A c \in DOMAIN reqs' :
             (/\ reqs'[c].kind = "execute"
              /\ reqs'[c].pc = "generate"
              /\ (c \notin DOMAIN reqs \/ reqs[c].pc # "generate")) =>
                 /\ At(c, "execute", "markInProgress")
                 /\ tasks'[reqs'[c].id].status = "in_progress"]_vars
    /\ \A c \in 1..MaxCalls :
          (c \in DOMAIN reqs /\ reqs[c].kind = "execute") ~> PastFinalWrite(c)
    /\ [](\A id \in DOMAIN tasks :
             tasks[id].status = "in_progress" =>
                 \E c \in DOMAIN reqs : At(c, "execute", "generate") /\ reqs[c].id = id)

\* Task 1 was executed twice, the second run failing after the first had
\* completed, and nothing is in flight.
C28_Witness ==
    /\ Quiescent
    /\ Len(tasks) = 1
    /\ tasks[1].status = "failed"
    /\ tasks[1].completedAt # NoTime
    /\ last.kind = "execute"

\* C29: an execute request that has applied its completed write writes
\* nothing more to the task: the step that follows, with the task_completed
\* ActivityLog, leaves the task as it is, whether the log write succeeds or
\* fails, and in particular does not set its status to failed.
C29_CompletedIsNotOverwritten ==
    [][\A c \in DOMAIN reqs :
          (At(c, "execute", "log") /\ Resumes(c)) =>
              /\ tasks'[reqs[c].id].status = "failed" =>
                    tasks[reqs[c].id].status = "failed"
              /\ tasks'[reqs[c].id] = tasks[reqs[c].id]]_vars

\* The tasks of the user that satisfy every filter given.
SatisfyingAll(userId, filters) ==
    {i \in DOMAIN tasks :
        /\ tasks[i].userId = userId
        /\ \A k \in DOMAIN filters : tasks[i][k] = filters[k]}

\* C30: a list of tasks asked for with two or three of the filters
\* projectId, category and status, and answered 200, holds exactly the
\* user's tasks that satisfy all the given filters, each once and as
\* stored.
C30_FiltersCombine ==
    [][\A u \in Users, filters \in TaskFilters :
          (/\ Cardinality(DOMAIN filters) >= 2
           /\ ListTasks(u, filters)
           /\ last'.resp.status = 200) =>
              LET rows == last'.resp.body
              IN  /\ {rows[i].id : i \in DOMAIN rows} = SatisfyingAll(u, filters)
                  /\ Len(rows) = Cardinality(SatisfyingAll(u, filters))
                  /\ \A i \in DOMAIN rows : rows[i] = tasks[rows[i].id]]_vars
====
